---- MODULE Spec2Model ----
(***************************************************************************)
(* Model of the conversational RAG pipeline of travel_rag:                 *)
(*   - src/rag/memory.py      the process-wide session store               *)
(*   - src/rag/rag_chain.py   create_conversational_rag_chain_with_sources *)
(*   - scripts/test_rag.py    the chain wrapped in RunnableWithMessageHistory *)
(* answer(q, s) is rag_chain_memory.invoke({"question": q}, session_id=s), *)
(* clear(s) is clear_session_history(s), get_history(s) is                 *)
(* get_session_history(s).messages.                                        *)
(***************************************************************************)
EXTENDS Integers, Sequences, FiniteSets, TLC

\* ------------------------------------------------------------------ bounds
MaxCalls == 2       \* invocations of the chain in one behaviour
MaxDocs == 2        \* longest retrieval result (the code's k is 5)
MaxCite == 2        \* longest list given to a citation formatter
MaxFeatures == 3    \* longest list of features fetched for a city
MaxFetches == 3     \* calls of fetch_and_save_attractions in one behaviour

Procs == {1, 2}                 \* threads that may call the chain
\* the only caller in sequential use
MainThread == CHOOSE p \in Procs : \A q \in Procs : p <= q
Sessions == {"s1", "s2"}        \* session ids
Questions == {"q1", "q2"}       \* question texts
Records == {"r1", "r2"}         \* documents of the vector index
ObjIds == 1 .. (Cardinality(Sessions) + Cardinality(Procs))

\* rag_chain.py:190, the text returned when no document was retrieved
FallbackMessage == "I don't have information about that in my database. Please try asking about Seattle tourist attractions."

\* what the language model may return (it may even repeat the fallback text)
LLMTexts == {"a1", FallbackMessage}

DocSeqs == UNION {[1 .. n -> Records] : n \in 0 .. MaxDocs}

VARIABLES
    session_store,  \* memory.py _session_store: session id -> history object
    heap,           \* history object -> its messages (ChatMessageHistory.messages)
    run,            \* per thread: the position and locals of its invoke() call
    ncalls,         \* number of invoke() calls started so far
    callLog,        \* history variable: call number -> what that call returned
    lastOp,         \* the last clear / get_history operation and what it returned
    concurrent,     \* FALSE: one caller at a time (the shell's loop); TRUE: threads interleave
    calc,           \* the input and output of a pure function under test (citations, ingestion)
    shell           \* cli.py: the position and locals of interactive_loop / single_query

vars == <<session_store, heap, run, ncalls, callLog, lastOp, concurrent, calc, shell>>

\* ------------------------------------------------------------ pure helpers
\* Document.page_content of a record, as a sequence of tokens; the content of
\* record "r2" is whitespace only
page_content(doc) == IF doc = "r2" THEN <<" ">> ELSE <<doc>>

RECURSIVE JoinDocs(_)
JoinDocs(docs) ==
    IF Len(docs) = 0 THEN <<>>
    ELSE IF Len(docs) = 1 THEN page_content(docs[1])
    ELSE page_content(docs[1]) \o <<"\n\n">> \o JoinDocs(Tail(docs))

\* mutant: documents whose content is blank are left out of the context
format_docs_nonblank(docs) == JoinDocs(SelectSeq(docs, LAMBDA d : page_content(d) # <<" ">>))

\* rag_chain.py format_docs: "\n\n".join(doc.page_content for doc in docs)
format_docs(docs) == JoinDocs(docs)

\* a message is its type and content; "call" and "session_id" are history tags
\* (the invoke() call that appended it and the session that call was addressed to)
HumanMessage(content, tag) ==
    [type |-> "human", content |-> content, call |-> tag.call, session_id |-> tag.session_id]
AIMessage(content, tag) ==
    [type |-> "ai", content |-> content, call |-> tag.call, session_id |-> tag.session_id]

\* the objects still referenced by the store or by a call in flight
Referenced(store, r) ==
    ({store[s] : s \in DOMAIN store} \cup {r[p].hist : p \in Procs}) \ {0}

Collect(h, store, r) == [o \in (DOMAIN h) \cap Referenced(store, r) |-> h[o]]

\* ChatMessageHistory(): a fresh, empty history object
\* the first object id
NewObject == CHOOSE o \in ObjIds : \A o2 \in ObjIds : o <= o2

NewHistory == CHOOSE o \in ObjIds : o \notin DOMAIN heap /\ \A o2 \in ObjIds : o2 \notin DOMAIN heap => o <= o2

\* mutant: every new session is given the history object of an existing one
\* (one shared ChatMessageHistory instead of a fresh one per session id)
get_session_history_shared(session_id) ==
    IF session_id \notin DOMAIN session_store
    THEN IF DOMAIN session_store = {}
         THEN [store |-> session_store @@ (session_id :> NewHistory),
               heap |-> heap @@ (NewHistory :> <<>>),
               ret |-> NewHistory]
         ELSE LET o == session_store[CHOOSE s \in DOMAIN session_store : TRUE]
              IN [store |-> session_store @@ (session_id :> o), heap |-> heap, ret |-> o]
    ELSE [store |-> session_store, heap |-> heap, ret |-> session_store[session_id]]

\* mutant: the membership test is missing, every access makes a new history
get_session_history_fresh(session_id) ==
    [store |-> [s \in (DOMAIN session_store) \cup {session_id} |->
                   IF s = session_id THEN NewHistory ELSE session_store[s]],
     heap |-> heap @@ (NewHistory :> <<>>),
     ret |-> NewHistory]

\* memory.py get_session_history: the store, the heap and the object returned
get_session_history(session_id) ==
    IF session_id \notin DOMAIN session_store
    THEN [store |-> session_store @@ (session_id :> NewHistory),
          heap |-> heap @@ (NewHistory :> <<>>),
          ret |-> NewHistory]
    ELSE [store |-> session_store, heap |-> heap, ret |-> session_store[session_id]]

\* what get_history(s) shows: the messages of the session, empty when absent
Turns(s) == IF s \in DOMAIN session_store THEN heap[session_store[s]] ELSE <<>>

\* no AnswerOutcome: nothing has been returned to the caller
NoResult == [returned |-> FALSE, answer |-> "", source_documents |-> <<>>]

IdleRun == [pc |-> "idle", call |-> 0, session_id |-> "", question |-> "",
            hist |-> 0, chat_history |-> <<>>, docs |-> <<>>, context |-> <<>>,
            branch |-> "", answer |-> "", error |-> "", result |-> NoResult,
            turns_before |-> <<>>, llm_out |-> "", query |-> "", prompt |-> <<>>,
            retrCalls |-> 0, llmCalls |-> 0, steps |-> <<>>]

Finished(p) == run[p].pc \in {"idle", "returned", "raised"}
Quiescent == \A p \in Procs : Finished(p)

NoOp == [op |-> "none", sid |-> "", existed |-> FALSE, ret |-> "", log |-> "",
         raised |-> "", messages |-> <<>>, obj |-> 0]

\* no pure function is being exercised
NoCalc == [op |-> "none"]

\* the shell is not running
NoShell == [pc |-> "off", mode |-> "none", session_id |-> "", turn |-> 0, shown |-> 0,
            prev |-> 0, last |-> "", raw |-> << >>, question |-> "", printed |-> << >>]

Init ==
    /\ session_store = << >>
    /\ heap = << >>
    /\ run = [p \in Procs |-> IdleRun]
    /\ ncalls = 0
    /\ callLog = << >>
    /\ lastOp = NoOp
    /\ concurrent = FALSE
    /\ calc = NoCalc
    /\ shell = NoShell

\* --------------------------------------------------------------- answer()
\* RunnableWithMessageHistory.invoke: _merge_configs calls
\* get_session_history(session_id) before anything else runs
Invoke(p, q, s) ==
    /\ Finished(p)
    /\ ncalls < MaxCalls
    /\ concurrent \/ (p = MainThread /\ Quiescent)
    /\ LET g == get_session_history(s)
           r == [run EXCEPT ![p] = [IdleRun EXCEPT
                     !.pc = "enter_history", !.call = ncalls + 1,
                     !.session_id = s, !.question = q, !.hist = g.ret,
                     !.turns_before = Turns(s)]]
       IN /\ session_store' = g.store
          /\ run' = r
          /\ heap' = Collect(g.heap, g.store, r)
    /\ ncalls' = ncalls + 1
    /\ UNCHANGED callLog
    /\ lastOp' = NoOp
    /\ UNCHANGED <<concurrent, calc>>

\* RunnableWithMessageHistory._enter_history: chat_history = hist.messages.copy()
EnterHistory(p) ==
    /\ run[p].pc = "enter_history"
    /\ run' = [run EXCEPT ![p].chat_history = heap[run[p].hist],
                          ![p].steps = Append(@, "load_history"),
                          ![p].pc = "retriever_with_check"]
    /\ UNCHANGED <<session_store, heap, ncalls, callLog, lastOp, concurrent, calc>>

\* the call of thread p ends: its reference to the history object is dropped
EndCall(p, r, status, answer) ==
    /\ run' = [r EXCEPT ![p].hist = 0]
    /\ heap' = Collect(heap, session_store, run')
    /\ callLog' = IF status = "returned"
                  THEN callLog @@ (run[p].call :>
                           [session_id |-> run[p].session_id,
                            question |-> run[p].question, answer |-> answer,
                            query |-> r[p].query, cleared |-> FALSE])
                  ELSE callLog

\* mutant: with a history the question is rewritten before it is searched
retrieval_query_rewritten(x) ==
    IF x.chat_history = <<>> THEN x.question ELSE "standalone question"

\* rag_chain.py retriever_with_check: retriever.invoke(x["question"])
retrieval_query(x) == x.question

\* rag_chain.py retriever_with_check, retriever.invoke returned docs
RetrieveOk(p) ==
    /\ run[p].pc = "retriever_with_check"
    /\ \E docs \in DocSeqs :
         run' = [run EXCEPT ![p].docs = docs,
                            ![p].query = retrieval_query(run[p]),
                            ![p].context = IF docs # <<>> THEN format_docs(docs) ELSE <<>>,
                            ![p].retrCalls = @ + 1,
                            ![p].steps = Append(@, "retrieve"),
                            ![p].pc = "smart_answer"]
    /\ UNCHANGED <<session_store, heap, ncalls, callLog, lastOp, concurrent, calc>>

\* mutant: the failure of the search is caught and treated as "no documents"
RetrieveFailsAsEmpty(p) ==
    /\ run[p].pc = "retriever_with_check"
    /\ run' = [run EXCEPT ![p].error = "RetrievalUnavailable",
                          ![p].retrCalls = @ + 1,
                          ![p].steps = Append(@, "retrieve"),
                          ![p].pc = "smart_answer"]
    /\ UNCHANGED <<session_store, heap, ncalls, callLog, lastOp, concurrent, calc>>

\* rag_chain.py retriever_with_check, retriever.invoke raised: nothing catches it
RetrieveFails(p) ==
    /\ run[p].pc = "retriever_with_check"
    /\ EndCall(p, [run EXCEPT ![p].error = "RetrievalUnavailable",
                              ![p].query = retrieval_query(run[p]),
                              ![p].retrCalls = @ + 1,
                              ![p].steps = Append(@, "retrieve"),
                              ![p].pc = "raised"], "raised", "")
    /\ UNCHANGED <<session_store, ncalls, lastOp, concurrent, calc>>

\* mutant: only a missing list skips the language model (if x["docs"] is None)
NoDocsIsNone(docs) == FALSE

\* mutant: a single document is treated as none (if len(x["docs"]) <= 1)
NoDocsAtMostOne(docs) == Len(docs) <= 1

\* rag_chain.py smart_answer: if not x["docs"]
NoDocs(docs) == docs = <<>>

\* rag_chain.py smart_answer, the test and the fallback return
\* mutant: the fallback is returned without passing through the history
SmartAnswerSkipsHistory(p) ==
    /\ run[p].pc = "smart_answer"
    /\ IF NoDocs(run[p].docs)
       THEN run' = [run EXCEPT ![p].answer = FallbackMessage,
                               ![p].branch = "fallback",
                               ![p].steps = Append(@, "decide"),
                               ![p].pc = "return"]
       ELSE run' = [run EXCEPT ![p].branch = "llm",
                               ![p].steps = Append(@, "decide"),
                               ![p].pc = "answer_chain"]
    /\ UNCHANGED <<session_store, heap, ncalls, callLog, lastOp, concurrent, calc>>

\* rag_chain.py smart_answer: the fallback text without the model when there
\* are no docs, the answer chain otherwise
SmartAnswer(p) ==
    /\ run[p].pc = "smart_answer"
    /\ IF NoDocs(run[p].docs)
       THEN run' = [run EXCEPT ![p].answer = FallbackMessage,
                               ![p].branch = "fallback",
                               ![p].steps = Append(@, "decide"),
                               ![p].pc = "exit_history"]
       ELSE run' = [run EXCEPT ![p].branch = "llm",
                               ![p].steps = Append(@, "decide"),
                               ![p].pc = "answer_chain"]
    /\ UNCHANGED <<session_store, heap, ncalls, callLog, lastOp, concurrent, calc>>

\* mutant: the chat_history placeholder is missing from the template
conversational_rag_prompt_no_history(x) ==
    <<[type |-> "system", context |-> x.context]>>
    \o <<[type |-> "human", content |-> x.question]>>

\* prompts.py get_conversational_rag_prompt, filled with x: the system message
\* with {context}, MessagesPlaceholder("chat_history"), ("human", "{question}")
conversational_rag_prompt(x) ==
    <<[type |-> "system", context |-> x.context]>>
    \o x.chat_history
    \o <<[type |-> "human", content |-> x.question]>>

\* rag_chain.py smart_answer: (prompt | llm | StrOutputParser()).invoke(x) returned text
GenerateOk(p) ==
    /\ run[p].pc = "answer_chain"
    /\ \E text \in LLMTexts :
         run' = [run EXCEPT ![p].answer = text,
                            ![p].llm_out = text,
                            ![p].prompt = conversational_rag_prompt(run[p]),
                            ![p].llmCalls = @ + 1,
                            ![p].steps = Append(@, "generate"),
                            ![p].pc = "exit_history"]
    /\ UNCHANGED <<session_store, heap, ncalls, callLog, lastOp, concurrent, calc>>

\* mutant: the question is stored in the history before the model answers
GenerateFailsOrphan(p) ==
    /\ run[p].pc = "answer_chain"
    /\ run' = [run EXCEPT ![p].error = "GenerationFailure",
                          ![p].llmCalls = @ + 1,
                          ![p].steps = Append(@, "generate"),
                          ![p].pc = "raised",
                          ![p].hist = 0]
    /\ heap' = Collect([heap EXCEPT ![run[p].hist] = Append(@,
                   HumanMessage(run[p].question,
                       [call |-> run[p].call, session_id |-> run[p].session_id]))],
                   session_store, run')
    /\ UNCHANGED <<session_store, ncalls, callLog, lastOp, concurrent, calc>>

\* mutant: a failed generation is tried again
GenerateFailsRetry(p) ==
    /\ run[p].pc = "answer_chain"
    /\ run[p].llmCalls < 3
    /\ run' = [run EXCEPT ![p].llmCalls = @ + 1]
    /\ UNCHANGED <<session_store, heap, ncalls, callLog, lastOp, concurrent, calc>>

\* rag_chain.py smart_answer: the language model raised, nothing catches it
GenerateFails(p) ==
    /\ run[p].pc = "answer_chain"
    /\ EndCall(p, [run EXCEPT ![p].error = "GenerationFailure",
                              ![p].prompt = conversational_rag_prompt(run[p]),
                              ![p].llmCalls = @ + 1,
                              ![p].steps = Append(@, "generate"),
                              ![p].pc = "raised"], "raised", "")
    /\ UNCHANGED <<session_store, ncalls, lastOp, concurrent, calc>>

\* mutant: the answer is stored before the question
ExitMessagesSwapped(question, answer, tag) ==
    <<AIMessage(answer, tag), HumanMessage(question, tag)>>

\* RunnableWithMessageHistory._exit_history: input_messages + output_messages
ExitMessages(question, answer, tag) ==
    <<HumanMessage(question, tag), AIMessage(answer, tag)>>

\* RunnableWithMessageHistory._exit_history (the on_end listener of the chain):
\* hist.add_messages appends the messages one by one
ExitHistory(p) ==
    /\ run[p].pc \in {"exit_history", "exit_history_2"}
    /\ LET msgs == ExitMessages(run[p].question, run[p].answer,
                                [call |-> run[p].call, session_id |-> run[p].session_id])
           first == run[p].pc = "exit_history"
       IN /\ heap' = [heap EXCEPT ![run[p].hist] =
                         Append(@, IF first THEN msgs[1] ELSE msgs[2])]
          /\ run' = [run EXCEPT ![p].steps = IF first THEN Append(@, "append_history") ELSE @,
                                ![p].pc = IF first THEN "exit_history_2" ELSE "return"]
    /\ UNCHANGED <<session_store, ncalls, callLog, lastOp, concurrent, calc>>

\* mutant: only the best match is returned as a source
source_documents_first(x) == IF Len(x.docs) > 1 THEN <<x.docs[1]>> ELSE x.docs

\* rag_chain.py: "source_documents": lambda x: x["docs"]
source_documents(x) == x.docs

\* invoke() returns the RunnableParallel's {"answer", "source_documents"}
Return(p) ==
    /\ run[p].pc = "return"
    /\ EndCall(p, [run EXCEPT ![p].result = [returned |-> TRUE,
                                            answer |-> run[p].answer,
                                            source_documents |-> source_documents(run[p])],
                              ![p].steps = Append(@, "return"),
                              ![p].pc = "returned"], "returned", run[p].answer)
    /\ UNCHANGED <<session_store, ncalls, lastOp, concurrent, calc>>

\* ------------------------------------------------- clear() and get_history()
\* the caller moves on: the value or exception of a finished call is gone
Forget == [p \in Procs |-> IF Finished(p) THEN IdleRun ELSE run[p]]

\* history variable: the turns of the returned calls of this session are cleared
MarkCleared(session_id) ==
    [c \in DOMAIN callLog |->
        IF callLog[c].session_id = session_id
        THEN [callLog[c] EXCEPT !.cleared = TRUE] ELSE callLog[c]]

\* memory.py get_all_sessions: list(_session_store.keys())
get_all_sessions == DOMAIN session_store

\* mutant: clear empties the messages but keeps the session registered
clear_session_history_empties(session_id) ==
    /\ concurrent \/ Quiescent
    /\ IF session_id \in DOMAIN session_store
       THEN /\ heap' = [heap EXCEPT ![session_store[session_id]] = <<>>]
            /\ lastOp' = [op |-> "clear", sid |-> session_id, existed |-> TRUE,
                          ret |-> "None", log |-> "session has been deleted!",
                          raised |-> "", messages |-> <<>>, obj |-> 0]
       ELSE /\ heap' = heap
            /\ lastOp' = [op |-> "clear", sid |-> session_id, existed |-> FALSE,
                          ret |-> "None", log |-> "session not found!",
                          raised |-> "", messages |-> <<>>, obj |-> 0]
    /\ session_store' = session_store
    /\ run' = Forget
    /\ callLog' = MarkCleared(session_id)
    /\ UNCHANGED <<ncalls, concurrent, calc>>

\* mutant: the two warnings are swapped
clear_session_history_swapped(session_id) ==
    /\ concurrent \/ Quiescent
    /\ IF session_id \in DOMAIN session_store
       THEN /\ session_store' = [s \in (DOMAIN session_store) \ {session_id} |-> session_store[s]]
            /\ lastOp' = [op |-> "clear", sid |-> session_id, existed |-> TRUE,
                          ret |-> "None", log |-> "session not found!",
                          raised |-> "", messages |-> <<>>, obj |-> 0]
       ELSE /\ session_store' = session_store
            /\ lastOp' = [op |-> "clear", sid |-> session_id, existed |-> FALSE,
                          ret |-> "None", log |-> "session has been deleted!",
                          raised |-> "", messages |-> <<>>, obj |-> 0]
    /\ heap' = Collect(heap, session_store', run)
    /\ run' = Forget
    /\ callLog' = MarkCleared(session_id)
    /\ UNCHANGED <<ncalls, concurrent, calc>>

\* mutant: del _session_store[session_id] without the membership test
clear_session_history_unchecked(session_id) ==
    /\ concurrent \/ Quiescent
    /\ IF session_id \in DOMAIN session_store
       THEN /\ session_store' = [s \in (DOMAIN session_store) \ {session_id} |-> session_store[s]]
            /\ lastOp' = [op |-> "clear", sid |-> session_id, existed |-> TRUE,
                          ret |-> "None", log |-> "session has been deleted!",
                          raised |-> "", messages |-> <<>>, obj |-> 0]
       ELSE /\ session_store' = session_store
            /\ lastOp' = [op |-> "clear", sid |-> session_id, existed |-> FALSE,
                          ret |-> "", log |-> "",
                          raised |-> "KeyError", messages |-> <<>>, obj |-> 0]
    /\ heap' = Collect(heap, session_store', run)
    /\ run' = Forget
    /\ callLog' = MarkCleared(session_id)
    /\ UNCHANGED <<ncalls, concurrent, calc>>

\* memory.py clear_session_history
clear_session_history(session_id) ==
    /\ concurrent \/ Quiescent
    /\ IF session_id \in DOMAIN session_store
       THEN /\ session_store' = [s \in (DOMAIN session_store) \ {session_id} |-> session_store[s]]
            /\ lastOp' = [op |-> "clear", sid |-> session_id, existed |-> TRUE,
                          ret |-> "None", log |-> "session has been deleted!",
                          raised |-> "", messages |-> <<>>, obj |-> 0]
       ELSE /\ session_store' = session_store
            /\ lastOp' = [op |-> "clear", sid |-> session_id, existed |-> FALSE,
                          ret |-> "None", log |-> "session not found!",
                          raised |-> "", messages |-> <<>>, obj |-> 0]
    /\ heap' = Collect(heap, session_store', run)
    /\ run' = Forget
    /\ callLog' = MarkCleared(session_id)
    /\ UNCHANGED <<ncalls, concurrent, calc>>

\* cli.py 'history': get_session_history(session_id).messages
get_history(session_id) ==
    /\ concurrent \/ Quiescent
    /\ LET g == get_session_history(session_id)
       IN /\ session_store' = g.store
          /\ heap' = Collect(g.heap, g.store, run)
          /\ lastOp' = [op |-> "get_history", sid |-> session_id,
                        existed |-> session_id \in DOMAIN session_store,
                        ret |-> "messages", log |-> "", raised |-> "",
                        messages |-> g.heap[g.ret], obj |-> g.ret]
    /\ run' = Forget
    /\ UNCHANGED <<ncalls, callLog, concurrent, calc>>

\* a step of the answer() call of thread p
AnswerStep(p) ==
    \/ EnterHistory(p) /\ UNCHANGED shell
    \/ RetrieveOk(p) /\ UNCHANGED shell
    \/ RetrieveFails(p) /\ UNCHANGED shell
    \/ SmartAnswer(p) /\ UNCHANGED shell
    \/ GenerateOk(p) /\ UNCHANGED shell
    \/ GenerateFails(p) /\ UNCHANGED shell
    \/ ExitHistory(p) /\ UNCHANGED shell
    \/ Return(p) /\ UNCHANGED shell

Next ==
    \/ \E p \in Procs, q \in Questions, s \in Sessions : Invoke(p, q, s) /\ UNCHANGED shell
    \/ \E p \in Procs : AnswerStep(p)
    \/ \E s \in Sessions : clear_session_history(s) /\ UNCHANGED shell
    \/ \E s \in Sessions : get_history(s) /\ UNCHANGED shell

Spec == Init /\ [][Next]_vars

\* ===================================================================== claims
IsPrefix(a, b) == Len(a) <= Len(b) /\ SubSeq(b, 1, Len(a)) = a

\* an operation addressed to session a takes a step
OpOn(a) ==
    \/ clear_session_history(a)
    \/ get_history(a)
    \/ \E p \in Procs, q \in Questions : Invoke(p, q, a)
    \/ \E p \in Procs : run[p].session_id = a /\ AnswerStep(p)

\* every turn a session holds, and every turn get_history showed for it, was
\* appended by a call addressed to that session
IsolatedTurns ==
    /\ \A s \in Sessions : \A i \in 1 .. Len(Turns(s)) : Turns(s)[i].session_id = s
    /\ lastOp.op = "get_history" =>
           \A i \in 1 .. Len(lastOp.messages) : lastOp.messages[i].session_id = lastOp.sid

\* a step of an operation addressed to a leaves the turns of every other session alone
IsolatedStep ==
    \A a \in Sessions : OpOn(a) =>
        \A b \in Sessions \ {a} : Turns(b)' = Turns(b)

\* C1: session isolation. After any sequence of answer, clear and get_history
\* operations, no turn appended while answering in session A is among the turns
\* of a session B # A, and no operation addressed to A changes the turns of B.
C1_SessionIsolation == []IsolatedTurns /\ [][IsolatedStep]_vars

\* both sessions hold turns of their own, and get_history showed some of them
C1_Witness ==
    /\ Quiescent
    /\ Turns("s1") # <<>> /\ Turns("s2") # <<>>
    /\ lastOp.op = "get_history" /\ lastOp.messages # <<>>

\* the turns of s as question/answer pairs in append order
PairedTurns(h) ==
    /\ Len(h) % 2 = 0
    /\ \A i \in 1 .. Len(h) : h[i].type = (IF i % 2 = 1 THEN "human" ELSE "ai")
    /\ \A i \in 1 .. Len(h) : i % 2 = 1 =>
           /\ h[i].call \in DOMAIN callLog
           /\ h[i + 1].call = h[i].call
           /\ h[i].content = callLog[h[i].call].question
           /\ h[i + 1].content = callLog[h[i].call].answer
    /\ \A i, j \in 1 .. Len(h) : i + 1 < j /\ i % 2 = 1 => h[i].call < h[j].call

\* between operations every session's history is well paired
OrderedTurns == Quiescent => \A s \in Sessions : PairedTurns(Turns(s))

\* a step that is not a clear of s only extends the turns of s
PrefixStep ==
    \A s \in Sessions : clear_session_history(s) \/ IsPrefix(Turns(s), Turns(s)')

\* C2: order preservation. In sequential use get_history(S) has even length,
\* alternates human, assistant from a human turn, pairs every question with the
\* answer returned for it, in call order; and except across a clear of S the
\* earlier history is a prefix of the later one.
C2_OrderPreservation == []OrderedTurns /\ [][PrefixStep]_vars

\* a session holds two complete exchanges
C2_Witness == Quiescent /\ \E s \in Sessions : Len(Turns(s)) = 4

\* the search of this call completed and found nothing
RetrievedEmpty(p) ==
    run[p].retrCalls = 1 /\ run[p].error # "RetrievalUnavailable" /\ run[p].docs = <<>>

\* the search of this call completed and found at least one document
RetrievedSome(p) ==
    run[p].retrCalls = 1 /\ run[p].error # "RetrievalUnavailable" /\ run[p].docs # <<>>

\* C3: short-circuit correctness. If retrieval returns an empty sequence, the
\* language model is never invoked during that call and the source_documents
\* returned are the empty sequence.
C3_ShortCircuit ==
    \A p \in Procs : RetrievedEmpty(p) =>
        /\ run[p].llmCalls = 0
        /\ run[p].pc # "answer_chain"
        /\ run[p].pc # "raised"
        /\ run[p].pc = "returned" =>
               run[p].result.returned /\ run[p].result.source_documents = <<>>

\* a call whose search found nothing has returned
C3_Witness ==
    \E p \in Procs : RetrievedEmpty(p) /\ run[p].pc = "returned" /\ run[p].result.returned

\* C4: in the short-circuit branch the answer is the one fixed fallback message,
\* whatever the question and the history, and that branch is taken only when
\* retrieval completed and returned zero records; a failed call returns nothing.
C4_FixedFallback ==
    \A p \in Procs :
        /\ run[p].branch = "fallback" =>
               /\ run[p].answer = FallbackMessage
               /\ RetrievedEmpty(p)
               /\ run[p].error = ""
               /\ run[p].pc = "returned" => run[p].result.answer = FallbackMessage
        /\ run[p].pc = "raised" => run[p].result = NoResult /\ run[p].branch # "fallback"

\* the fallback was returned for a question asked in a session that has history
C4_Witness ==
    \E p \in Procs :
        /\ run[p].pc = "returned" /\ run[p].branch = "fallback"
        /\ run[p].result.answer = FallbackMessage
        /\ run[p].chat_history # <<>>

\* C5: the non-short-circuit path. If retrieval returns N > 0 records the
\* language model is invoked exactly once during the call, the answer is the
\* text it returned, and source_documents is the retrieved sequence: same
\* length, same records, same order.
C5_NonShortCircuit ==
    \A p \in Procs : RetrievedSome(p) =>
        /\ run[p].llmCalls <= 1
        /\ Finished(p) => run[p].llmCalls = 1
        /\ run[p].pc = "returned" =>
               /\ run[p].result.returned
               /\ run[p].llm_out \in LLMTexts
               /\ run[p].result.answer = run[p].llm_out
               /\ run[p].result.source_documents = run[p].docs

\* a call returned two different records in retrieval order
C5_Witness ==
    \E p \in Procs :
        /\ run[p].pc = "returned" /\ RetrievedSome(p)
        /\ Len(run[p].result.source_documents) = 2
        /\ run[p].result.source_documents[1] # run[p].result.source_documents[2]

\* C6: failure atomicity. If the language model fails after a non-empty
\* retrieval the call ends in an error, returns no outcome, and the turns of
\* the session are exactly what they were before the call.
C6_FailureAtomicity ==
    \A p \in Procs : run[p].error = "GenerationFailure" =>
        /\ run[p].pc = "raised"
        /\ run[p].result = NoResult
        /\ run[p].docs # <<>>
        /\ Turns(run[p].session_id) = run[p].turns_before
        /\ Len(Turns(run[p].session_id)) % 2 = 0

\* the model failed in a session that already held an exchange
C6_Witness ==
    \E p \in Procs :
        /\ run[p].error = "GenerationFailure" /\ run[p].pc = "raised"
        /\ Len(run[p].turns_before) = 2

\* C7: retrieval unavailability is not an empty retrieval. If the vector search
\* fails the call ends in an error, returns neither the fallback text nor any
\* outcome, never invokes the language model and leaves the history unchanged.
C7_RetrievalUnavailable ==
    \A p \in Procs : run[p].error = "RetrievalUnavailable" =>
        /\ run[p].pc = "raised"
        /\ run[p].result = NoResult
        /\ run[p].answer # FallbackMessage
        /\ run[p].branch = ""
        /\ run[p].llmCalls = 0
        /\ Turns(run[p].session_id) = run[p].turns_before

\* the search failed in a session that already held an exchange
C7_Witness ==
    \E p \in Procs :
        /\ run[p].error = "RetrievalUnavailable" /\ run[p].pc = "raised"
        /\ Len(run[p].turns_before) = 2

FullOrder == <<"load_history", "retrieve", "decide", "generate", "append_history", "return">>
ShortOrder == <<"load_history", "retrieve", "decide", "append_history", "return">>

\* C8: no automatic retry. Within one call the retrieval gateway is invoked
\* exactly once and the language model at most once, whether they succeed or
\* fail, and the steps occur in the order load history, retrieve, decide,
\* generate, append history, return.
C8_NoRetry ==
    \A p \in Procs :
        /\ run[p].retrCalls <= 1
        /\ run[p].llmCalls <= 1
        /\ run[p].pc \in {"returned", "raised"} => run[p].retrCalls = 1
        /\ IsPrefix(run[p].steps, FullOrder) \/ IsPrefix(run[p].steps, ShortOrder)
        /\ run[p].pc = "returned" => run[p].steps \in {FullOrder, ShortOrder}
        /\ run[p].pc = "raised" =>
               /\ run[p].steps[Len(run[p].steps)] \in {"retrieve", "generate"}
               /\ run[p].steps[Len(run[p].steps)] = "retrieve" => run[p].llmCalls = 0

\* a call went through all six steps and returned
C8_Witness == \E p \in Procs : run[p].pc = "returned" /\ run[p].steps = FullOrder

\* the statement of C9 as written: clear returns whether the session existed
C9_ReturnsWhetherExisted ==
    lastOp.op = "clear" => lastOp.ret = (IF lastOp.existed THEN "True" ELSE "False")

ClearReportStep ==
    \A s \in Sessions : clear_session_history(s) =>
        /\ lastOp'.ret = "None"
        /\ lastOp'.raised = ""
        /\ (lastOp'.log = "session has been deleted!") <=> (s \in DOMAIN session_store)
        /\ (lastOp'.log = "session not found!") <=> (s \notin DOMAIN session_store)
        /\ s \notin DOMAIN session_store'

\* C9 (amended): clear(session_id) returns no value (None) in both cases; it
\* logs "session has been deleted!" exactly when the session existed in the
\* store immediately before the call, and "session not found!" when it did not.
C9_ClearLogsWhetherExisted == [][ClearReportStep]_vars

\* a clear of an existing session and nothing returned
C9_Witness == lastOp.op = "clear" /\ lastOp.existed /\ lastOp.ret = "None"

ClearAbsentStep ==
    \A s \in Sessions : (clear_session_history(s) /\ s \notin DOMAIN session_store) =>
        /\ lastOp'.raised = ""
        /\ session_store' = session_store
        /\ heap' = heap

\* C10: clear on an absent session is a no-op. For every session id not in the
\* store, clear raises no error and leaves the set of session ids and every
\* session's turns unchanged.
C10_ClearAbsentNoOp == [][ClearAbsentStep]_vars

\* a clear of an absent session while another session holds turns
C10_Witness ==
    /\ lastOp.op = "clear" /\ ~lastOp.existed
    /\ \E s \in DOMAIN session_store : Turns(s) # <<>>

\* no turn of a call whose session was cleared afterwards is in any history
NoClearedTurn ==
    /\ \A s \in Sessions : \A i \in 1 .. Len(Turns(s)) :
           Turns(s)[i].call \in DOMAIN callLog => ~callLog[Turns(s)[i].call].cleared
    /\ \A i \in 1 .. Len(lastOp.messages) :
           lastOp.messages[i].call \in DOMAIN callLog =>
               ~callLog[lastOp.messages[i].call].cleared

\* a clear of s unregisters s; the next access to an unregistered s starts empty
ClearRemovesStep ==
    \A s \in Sessions :
        /\ clear_session_history(s) => s \notin get_all_sessions' /\ Turns(s)' = <<>>
        /\ (s \notin get_all_sessions /\ get_history(s)) =>
               s \in get_all_sessions' /\ lastOp'.messages = <<>> /\ Turns(s)' = <<>>
        /\ (s \notin get_all_sessions /\ \E p \in Procs, q \in Questions : Invoke(p, q, s)) =>
               s \in get_all_sessions' /\ Turns(s)' = <<>>

\* C11: clear removes the session entirely. After clear(s), s is not among the
\* listed session ids and the next access to s yields an empty history; turns
\* appended before the clear never reappear in get_history(s).
C11_ClearRemoves == []NoClearedTurn /\ [][ClearRemovesStep]_vars

\* s was cleared after an exchange and holds a later exchange now
C11_Witness ==
    \E s \in Sessions :
        /\ Quiescent /\ Len(Turns(s)) = 2
        /\ \E c \in DOMAIN callLog : callLog[c].session_id = s /\ callLog[c].cleared

\* an access to a registered session returns its object and changes nothing;
\* only a clear of s changes the object registered for s
IdempotentStep ==
    \A s \in Sessions :
        /\ get_history(s) =>
               /\ lastOp'.obj = session_store'[s]
               /\ Cardinality(get_all_sessions') = Cardinality(get_all_sessions \cup {s})
               /\ \A t \in Sessions : Turns(t)' = Turns(t)
               /\ s \in get_all_sessions =>
                      session_store' = session_store /\ heap' = heap
               /\ s \notin get_all_sessions => lastOp'.messages = <<>>
               /\ (lastOp.op = "get_history" /\ lastOp.sid = s) =>
                      lastOp'.obj = lastOp.obj /\ lastOp'.messages = lastOp.messages
        /\ (s \in get_all_sessions /\ ~clear_session_history(s)) =>
               s \in get_all_sessions' /\ session_store'[s] = session_store[s]

\* C12: idempotent session creation. Accessing s any number of times with no
\* intervening clear returns the same session each time, registers exactly one
\* entry for s and never changes the turns of s or of any other session; on a
\* fresh id both accesses see an empty history.
C12_IdempotentCreation == [][IdempotentStep]_vars

\* s was accessed twice in a row and holds turns; another session exists too
C12_Witness ==
    /\ lastOp.op = "get_history" /\ lastOp.existed /\ lastOp.messages # <<>>
    /\ Cardinality(get_all_sessions) = 2

\* the query of a call is its question, and equals the query of every earlier
\* call that asked the same question, whatever the history or session then
QueryIsQuestion ==
    \A p \in Procs : run[p].retrCalls = 1 =>
        /\ run[p].query = run[p].question
        /\ \A c \in DOMAIN callLog :
               callLog[c].question = run[p].question => callLog[c].query = run[p].query

\* C13: the retrieval query is the literal question only. Two calls that ask
\* the same question with different session histories or session ids pass the
\* same query to the retriever.
C13_QueryIsLiteralQuestion == QueryIsQuestion

\* the first call asked a question with no history; a later call asks the same
\* question with a history and has searched
C13_Witness ==
    \E p \in Procs :
        /\ run[p].retrCalls = 1 /\ run[p].call = 2 /\ run[p].chat_history # <<>>
        /\ 1 \in DOMAIN callLog /\ callLog[1].question = run[p].question

\* C14: prompt composition. When the language model is invoked its prompt is
\* the system instruction carrying the context block, then every turn the
\* session held when the call started, in stored order, then the current
\* question as the final human message; no history turn of the prompt was
\* appended by this call.
C14_PromptComposition ==
    \A p \in Procs : run[p].llmCalls = 1 =>
        LET pr == run[p].prompt
            n == Len(pr)
        IN /\ n = Len(run[p].turns_before) + 2
           /\ pr[1].type = "system"
           /\ pr[1].context = run[p].context
           /\ SubSeq(pr, 2, n - 1) = run[p].turns_before
           /\ pr[n] = [type |-> "human", content |-> run[p].question]
           /\ \A i \in 2 .. (n - 1) : pr[i].call # run[p].call

\* the model was invoked in a session that already held an exchange
C14_Witness ==
    \E p \in Procs : run[p].llmCalls = 1 /\ Len(run[p].prompt) = 4

\* C15: the context block is the contents of the retrieved records in
\* retrieval order with a blank line between consecutive records and nothing
\* else; no record is dropped, duplicated, reordered or filtered, a record
\* whose content is whitespace only included.
C15_ContextBlock ==
    \A p \in Procs : RetrievedSome(p) =>
        LET ctx == run[p].context
            n == Len(run[p].docs)
        IN /\ Len(ctx) = 2 * n - 1
           /\ \A i \in 1 .. n : <<ctx[2 * i - 1]>> = page_content(run[p].docs[i])
           /\ \A i \in 1 .. (n - 1) : ctx[2 * i] = "\n\n"

\* two records were retrieved, the first with whitespace-only content
C15_Witness ==
    \E p \in Procs :
        /\ RetrievedSome(p) /\ Len(run[p].docs) = 2
        /\ page_content(run[p].docs[1]) = <<" ">> /\ run[p].docs[2] = "r1"
        /\ run[p].context = <<" ", "\n\n", "r1">>

\* C23: a short-circuited answer() still updates the session. It appends
\* exactly two turns, the question and then an assistant turn holding the
\* fallback text, so every successful call, short-circuited or not, grows the
\* history by exactly 2, and the fallback exchange is replayed in later prompts.
C23_FallbackIsRecorded ==
    \A p \in Procs :
        /\ run[p].pc = "returned" =>
              LET tag == [call |-> run[p].call, session_id |-> run[p].session_id]
              IN /\ Turns(run[p].session_id) =
                        run[p].turns_before
                        \o <<HumanMessage(run[p].question, tag), AIMessage(run[p].answer, tag)>>
                 /\ run[p].branch = "fallback" => run[p].answer = FallbackMessage
        /\ run[p].prompt # << >> =>
              /\ Len(run[p].prompt) = Len(run[p].turns_before) + 2
              /\ \A i \in 1 .. Len(run[p].turns_before) :
                     run[p].prompt[i + 1] = run[p].turns_before[i]

\* a short-circuited call has returned in a session that held an exchange, and
\* the session now ends with its question and the fallback text
C23_Witness ==
    \E p \in Procs :
        /\ run[p].pc = "returned" /\ run[p].branch = "fallback"
        /\ Len(run[p].turns_before) = 2
        /\ Len(Turns(run[p].session_id)) = 4
        /\ Turns(run[p].session_id)[4].content = FallbackMessage

\* ============================================================ citations.py
\* Python values of the coordinate fields: a float, or None
PyFloat(v) == [t |-> "float", v |-> v]
PyNone == [t |-> "None", v |-> 0]
\* bool(x) of such a value: None and 0.0 are false
Truthy(x) == x.t # "None" /\ x.v # 0

\* dict.get(key, default)
MetaGet(md, key, default) == IF key \in DOMAIN md THEN md[key] ELSE default

\* metadata dictionaries: each part present or missing
NameMetas == {<< >>, ("name" :> "Space Needle")}
PlaceMetas ==
    {<< >>,
     ("city" :> "Seattle") @@ ("country" :> "United States of America"),
     ("city" :> "Seattle") @@ ("state" :> "Washington")
         @@ ("country" :> "United States of America")}
CoordMetas ==
    {<< >>,
     ("lon" :> PyFloat(-122)),
     ("lat" :> PyNone) @@ ("lon" :> PyNone),
     ("lat" :> PyFloat(47)) @@ ("lon" :> PyNone),
     ("lat" :> PyFloat(47)) @@ ("lon" :> PyFloat(-122)),
     ("lat" :> PyFloat(0)) @@ ("lon" :> PyFloat(-122)),
     ("lat" :> PyFloat(47)) @@ ("lon" :> PyFloat(0))}

\* the Document objects a formatter may be given
CiteDocs ==
    {[page_content |-> IF n = << >> THEN " " ELSE "Name: Space Needle...",
      metadata |-> n @@ pl @@ co] : n \in NameMetas, pl \in PlaceMetas, co \in CoordMetas}

CiteInputs == UNION {[1 .. n -> CiteDocs] : n \in 0 .. MaxCite}

Rule == [line |-> "=" ]
NoSources == <<[line |-> "No sources available"]>>

\* citations.py format_citations_detailed, the lines of one document
DetailedParts(i, doc) ==
    LET name == MetaGet(doc.metadata, "name", "Unknown")
        city == MetaGet(doc.metadata, "city", "Unknown")
        state == MetaGet(doc.metadata, "state", "Unknown")
        country == MetaGet(doc.metadata, "country", "Unknown")
        lat == MetaGet(doc.metadata, "lat", PyNone)
        lon == MetaGet(doc.metadata, "lon", PyNone)
    IN <<Rule, [line |-> "source", ordinal |-> i, name |-> name], Rule,
         [line |-> "location", city |-> city, state |-> state, country |-> country]>>
       \o (IF Truthy(lat) /\ Truthy(lon)
           THEN <<[line |-> "coordinates", lat |-> lat.v, lon |-> lon.v]>> ELSE << >>)
       \o <<[line |-> "content", text |-> doc.page_content]>>

RECURSIVE DetailedFrom(_, _)
DetailedFrom(i, docs) ==
    IF i > Len(docs) THEN << >>
    ELSE DetailedParts(i, docs[i]) \o DetailedFrom(i + 1, docs)

\* mutant: the name is read with doc.metadata["name"]
format_citations_detailed_strict(source_docs) ==
    IF source_docs = << >> THEN [raised |-> "", out |-> NoSources]
    ELSE IF \E i \in 1 .. Len(source_docs) :
                "name" \notin DOMAIN source_docs[i].metadata
         THEN [raised |-> "KeyError", out |-> << >>]
         ELSE [raised |-> "", out |-> DetailedFrom(1, source_docs)]

\* citations.py format_citations_detailed: the output as its lines
format_citations_detailed(source_docs) ==
    IF source_docs = << >> THEN [raised |-> "", out |-> NoSources]
    ELSE [raised |-> "", out |-> DetailedFrom(1, source_docs)]

\* citations.py format_citations_compact, the lines of one document
CompactParts(i, doc) ==
    <<[line |-> "entry", ordinal |-> i,
       name |-> MetaGet(doc.metadata, "name", "Unknown"),
       city |-> MetaGet(doc.metadata, "city", "Unknown"),
       state |-> MetaGet(doc.metadata, "state", "Unknown")],
      [line |-> "content", text |-> doc.page_content]>>

RECURSIVE CompactFrom(_, _)
CompactFrom(i, docs) ==
    IF i > Len(docs) THEN << >>
    ELSE CompactParts(i, docs[i])
         \o (IF i < Len(docs) THEN <<[line |-> ""]>> ELSE << >>)
         \o CompactFrom(i + 1, docs)

RECURSIVE Dedup(_)
Dedup(docs) ==
    IF docs = << >> THEN << >>
    ELSE LET rest == Dedup(SubSeq(docs, 1, Len(docs) - 1))
             last == docs[Len(docs)]
         IN IF \E k \in 1 .. Len(rest) : rest[k] = last THEN rest ELSE Append(rest, last)

\* mutant: equal documents are cited once
format_citations_compact_dedup(source_docs) ==
    IF source_docs = << >> THEN [raised |-> "", out |-> NoSources]
    ELSE [raised |-> "", out |-> CompactFrom(1, Dedup(source_docs))]

\* citations.py format_citations_compact: the output as its lines
format_citations_compact(source_docs) ==
    IF source_docs = << >> THEN [raised |-> "", out |-> NoSources]
    ELSE [raised |-> "", out |-> CompactFrom(1, source_docs)]

\* all of the pipeline's state, untouched while a pure function is exercised
coreVars == <<session_store, heap, run, ncalls, callLog, lastOp, concurrent, shell>>

CoreInit ==
    /\ session_store = << >>
    /\ heap = << >>
    /\ run = [p \in Procs |-> IdleRun]
    /\ ncalls = 0
    /\ callLog = << >>
    /\ lastOp = NoOp
    /\ concurrent = FALSE
    /\ shell = NoShell

InitCitations ==
    /\ CoreInit
    /\ \E docs \in CiteInputs : calc = [op |-> "input", docs |-> docs]

FormatDetailed ==
    /\ calc.op = "input"
    /\ calc' = [op |-> "format_citations_detailed", docs |-> calc.docs,
                res |-> format_citations_detailed(calc.docs)]
    /\ UNCHANGED coreVars

FormatCompact ==
    /\ calc.op = "input"
    /\ calc' = [op |-> "format_citations_compact", docs |-> calc.docs,
                res |-> format_citations_compact(calc.docs)]
    /\ UNCHANGED coreVars

NextCitations == FormatDetailed \/ FormatCompact

SpecCitations == InitCitations /\ [][NextCitations]_vars

\* ------------------------------------------------------- claims, citations
Formatted == calc.op \in {"format_citations_detailed", "format_citations_compact"}

\* the header lines of an output, and its content lines
Headers(out) == SelectSeq(out, LAMBDA l : l.line \in {"source", "entry"})
Contents(out) == SelectSeq(out, LAMBDA l : l.line = "content")

\* C16: both citation formatters preserve input order and multiplicity. For N
\* records the output has exactly N entries, the i-th with ordinal i and the
\* name and content of the i-th record; equal records are not merged.
C16_CitationsPreserveOrder ==
    (Formatted /\ calc.docs # << >>) =>
        LET h == Headers(calc.res.out)
            c == Contents(calc.res.out)
        IN /\ Len(h) = Len(calc.docs)
           /\ Len(c) = Len(calc.docs)
           /\ \A i \in 1 .. Len(calc.docs) :
                 /\ h[i].ordinal = i
                 /\ h[i].name = MetaGet(calc.docs[i].metadata, "name", "Unknown")
                 /\ c[i].text = calc.docs[i].page_content

\* the compact form of a list holding the same record twice
C16_Witness ==
    /\ calc.op = "format_citations_compact"
    /\ Len(calc.docs) = 2 /\ calc.docs[1] = calc.docs[2]
    /\ Len(Headers(calc.res.out)) = 2

\* the lines of the i-th entry of a detailed output
EntryLines(out, i) ==
    LET pos(j) == CHOOSE k \in 1 .. Len(out) : out[k].line = "source" /\ out[k].ordinal = j
        last == IF i < Len(Headers(out)) THEN pos(i + 1) - 1 ELSE Len(out)
    IN SubSeq(out, pos(i), last)

HasCoordinates(out, i) ==
    \E k \in 1 .. Len(EntryLines(out, i)) : EntryLines(out, i)[k].line = "coordinates"

AbsentOrNull(md, key) == key \notin DOMAIN md \/ md[key].t = "None"

\* C17: in the detailed citation the coordinate line of a record is omitted if
\* and only if at least one of lat, lon is absent or null; for every record
\* whose lat and lon are both present numbers, whatever their value, the line
\* is emitted.
C17_CoordinatesIffPresent ==
    (calc.op = "format_citations_detailed" /\ calc.docs # << >>) =>
        \A i \in 1 .. Len(calc.docs) :
            ~HasCoordinates(calc.res.out, i) <=>
                (AbsentOrNull(calc.docs[i].metadata, "lat")
                     \/ AbsentOrNull(calc.docs[i].metadata, "lon"))

\* C18: citation formatting never fails. An empty list yields the fixed
\* placeholder in both variants, and a record missing any of name, city, state,
\* country, lat, lon is formatted with "Unknown" for the missing text fields.
C18_CitationsNeverFail ==
    Formatted =>
        /\ calc.res.raised = ""
        /\ calc.docs = << >> => calc.res.out = NoSources
        /\ calc.docs # << >> =>
              /\ Len(Headers(calc.res.out)) = Len(calc.docs)
              /\ \A i \in 1 .. Len(calc.docs) :
                    LET md == calc.docs[i].metadata
                        h == Headers(calc.res.out)[i]
                    IN /\ "name" \notin DOMAIN md => h.name = "Unknown"
                       /\ calc.op = "format_citations_compact" =>
                             /\ "city" \notin DOMAIN md => h.city = "Unknown"
                             /\ "state" \notin DOMAIN md => h.state = "Unknown"
                       /\ calc.op = "format_citations_detailed" =>
                             \E k \in 1 .. Len(calc.res.out) :
                                 /\ calc.res.out[k].line = "location"
                                 /\ "city" \notin DOMAIN md => calc.res.out[k].city = "Unknown"
                                 /\ "state" \notin DOMAIN md => calc.res.out[k].state = "Unknown"
                                 /\ "country" \notin DOMAIN md => calc.res.out[k].country = "Unknown"

\* the detailed form of a record with no metadata at all
C18_Witness ==
    /\ calc.op = "format_citations_detailed"
    /\ Len(calc.docs) = 1 /\ calc.docs[1].metadata = << >>
    /\ calc.res.raised = ""

\* ===================================================== concurrent answer()
\* Threads serving different sessions at once. Each dictionary operation of
\* get_session_history is one step, so the steps of two calls interleave.
InitConcurrent ==
    /\ session_store = << >>
    /\ heap = << >>
    /\ run = [p \in Procs |-> IdleRun]
    /\ ncalls = 0
    /\ callLog = << >>
    /\ lastOp = NoOp
    /\ concurrent = TRUE
    /\ calc = NoCalc
    /\ shell = NoShell

\* one worker thread per session: the session each thread serves
Serves == [p \in Procs |-> IF p = MainThread THEN "s1" ELSE "s2"]
\* and the question it sends (no step of the chain branches on the text)
Asks == [p \in Procs |-> IF p = MainThread THEN "q1" ELSE "q2"]

\* thread p calls the chain for its session s while no other thread serves s
InvokeStart(p, q, s) ==
    /\ concurrent
    /\ s = Serves[p]
    /\ q = Asks[p]
    /\ Finished(p)
    /\ ncalls < MaxCalls
    /\ \A o \in Procs \ {p} : Finished(o) \/ run[o].session_id # s
    /\ run' = [Forget EXCEPT ![p] = [IdleRun EXCEPT
                  !.pc = "gsh_check", !.call = ncalls + 1,
                  !.session_id = s, !.question = q,
                  !.turns_before = Turns(s)]]
    /\ ncalls' = ncalls + 1
    /\ UNCHANGED <<session_store, heap, callLog, lastOp, concurrent, calc>>

\* mutant: the membership test is missing, every access creates the history
GshCheckAlwaysCreates(p) ==
    /\ run[p].pc = "gsh_check"
    /\ run' = [run EXCEPT ![p].pc = "gsh_create"]
    /\ UNCHANGED <<session_store, heap, ncalls, callLog, lastOp, concurrent, calc>>

\* memory.py:53  if session_id not in _session_store
GshCheck(p) ==
    /\ run[p].pc = "gsh_check"
    /\ run' = [run EXCEPT ![p].pc = IF run[p].session_id \notin DOMAIN session_store
                                    THEN "gsh_create" ELSE "gsh_return"]
    /\ UNCHANGED <<session_store, heap, ncalls, callLog, lastOp, concurrent, calc>>

\* mutant: the new session is bound to a history object that is already stored
GshCreateShared(p) ==
    /\ run[p].pc = "gsh_create"
    /\ LET sid == run[p].session_id
           o == IF DOMAIN session_store = {} THEN NewHistory
                ELSE session_store[CHOOSE s \in DOMAIN session_store : TRUE]
       IN /\ session_store' = [s \in (DOMAIN session_store) \cup {sid} |->
                                  IF s = sid THEN o ELSE session_store[s]]
          /\ heap' = heap @@ (o :> << >>)
    /\ run' = [run EXCEPT ![p].pc = "gsh_return"]
    /\ UNCHANGED <<ncalls, callLog, lastOp, concurrent, calc>>

\* memory.py:54  _session_store[session_id] = ChatMessageHistory()
GshCreate(p) ==
    /\ run[p].pc = "gsh_create"
    /\ LET sid == run[p].session_id
       IN /\ session_store' = [s \in (DOMAIN session_store) \cup {sid} |->
                                  IF s = sid THEN NewHistory ELSE session_store[s]]
          /\ heap' = Collect(heap @@ (NewHistory :> << >>), session_store', run)
    /\ run' = [run EXCEPT ![p].pc = "gsh_return"]
    /\ UNCHANGED <<ncalls, callLog, lastOp, concurrent, calc>>

\* memory.py:56  return _session_store[session_id]
GshReturn(p) ==
    /\ run[p].pc = "gsh_return"
    /\ IF run[p].session_id \in DOMAIN session_store
       THEN /\ run' = [run EXCEPT ![p].hist = session_store[run[p].session_id],
                                  ![p].pc = "enter_history"]
            /\ UNCHANGED <<heap, callLog>>
       ELSE EndCall(p, [run EXCEPT ![p].error = "KeyError", ![p].pc = "raised"],
                    "raised", "")
    /\ UNCHANGED <<session_store, ncalls, lastOp, concurrent, calc>>

NextConcurrent ==
    \/ \E p \in Procs, q \in Questions, s \in Sessions : InvokeStart(p, q, s) /\ UNCHANGED shell
    \/ \E p \in Procs : GshCheck(p) /\ UNCHANGED shell
    \/ \E p \in Procs : GshCreate(p) /\ UNCHANGED shell
    \/ \E p \in Procs : GshReturn(p) /\ UNCHANGED shell
    \/ \E p \in Procs : AnswerStep(p)

SpecConcurrent == InitConcurrent /\ [][NextConcurrent]_vars

\* ---------------------------------------- concurrent answer(), one session
\* the session id all threads use
SharedSession == "s1"

\* the session has never been accessed, or the shell's history command has
\* looked it up before (an empty history exists for it)
InitSameSession ==
    /\ \/ /\ session_store = << >>
          /\ heap = << >>
          /\ lastOp = NoOp
       \/ /\ session_store = (SharedSession :> NewObject)
          /\ heap = (NewObject :> << >>)
          /\ lastOp = [op |-> "get_history", sid |-> SharedSession, existed |-> FALSE,
                       ret |-> "messages", log |-> "", raised |-> "",
                       messages |-> << >>, obj |-> NewObject]
    /\ run = [p \in Procs |-> IdleRun]
    /\ ncalls = 0
    /\ callLog = << >>
    /\ concurrent = TRUE
    /\ calc = NoCalc
    /\ shell = NoShell

\* thread p makes its one call of the chain for the shared session, whatever
\* the other thread is doing
InvokeSame(p, q, s) ==
    /\ concurrent
    /\ s = SharedSession
    /\ q = Asks[p]
    /\ run[p].pc = "idle"
    /\ ncalls < MaxCalls
    /\ run' = [run EXCEPT ![p] = [IdleRun EXCEPT
                  !.pc = "gsh_check", !.call = ncalls + 1,
                  !.session_id = s, !.question = q,
                  !.turns_before = Turns(s)]]
    /\ ncalls' = ncalls + 1
    /\ UNCHANGED <<session_store, heap, callLog, lastOp, concurrent, calc>>

NextSameSession ==
    \/ \E p \in Procs, q \in Questions, s \in Sessions : InvokeSame(p, q, s) /\ UNCHANGED shell
    \/ \E p \in Procs : GshCheck(p) /\ UNCHANGED shell
    \/ \E p \in Procs : GshCreate(p) /\ UNCHANGED shell
    \/ \E p \in Procs : GshReturn(p) /\ UNCHANGED shell
    \/ \E p \in Procs : AnswerStep(p)

SpecSameSession == InitSameSession /\ [][NextSameSession]_vars

\* ------------------------------------------------------ claims, concurrency
\* the history session s has when its returned calls, from call c on, run alone
RECURSIVE AloneHistory(_, _)
AloneHistory(s, c) ==
    IF c > ncalls THEN << >>
    ELSE (IF c \in DOMAIN callLog /\ callLog[c].session_id = s
          THEN ExitMessages(callLog[c].question, callLog[c].answer,
                            [call |-> c, session_id |-> s])
          ELSE << >>) \o AloneHistory(s, c + 1)

\* C19: concurrent answer() calls on distinct session ids are safe. In every
\* interleaving, also when both sessions are created concurrently, each session
\* ends with the history its own calls would have produced alone, and every
\* prompt holds only turns of its own session.
C19_DistinctSessionsSafe ==
    /\ Quiescent => \A s \in Sessions : Turns(s) = AloneHistory(s, 1)
    /\ \A p \in Procs :
          /\ \A i \in 1 .. Len(run[p].prompt) :
                "session_id" \in DOMAIN run[p].prompt[i] =>
                    run[p].prompt[i].session_id = run[p].session_id
          /\ run[p].prompt # << >> =>
                SubSeq(run[p].prompt, 2, Len(run[p].prompt) - 1) = run[p].turns_before

\* two calls on different sessions overlapped: the call that started second has
\* returned while the first, its two turns appended, has yet to return
C19_Witness ==
    /\ concurrent
    /\ \E p \in Procs : run[p].pc = "return" /\ run[p].call = 1
    /\ DOMAIN callLog = {2}
    /\ \E p \in Procs : run[p].pc = "returned" /\ run[p].call = 2
    /\ \A s \in Sessions : Len(Turns(s)) = 2

\* ============================================== data_collection/collector.py
\* GeoJSON features as the collector reads them: properties.place_id and
\* properties.wiki_and_media.wikipedia ("" when the link is missing)
Features == [place_id : {"p1", "p2"}, wikipedia : {"", "en:Space Needle", "en:Pike Place Market"}]

FeatureLists == UNION {[1 .. n -> Features] : n \in 0 .. MaxFeatures}

\* collector.py filter_attractions_with_wikipedia
filter_attractions_with_wikipedia(features) ==
    SelectSeq(features, LAMBDA feature : feature.wikipedia # "")

\* collector.py remove_duplicates: the loop over features[i..], seen_wiki_codes
RECURSIVE UniqueFrom(_, _, _)
UniqueFrom(features, i, seen_wiki_codes) ==
    IF i > Len(features) THEN << >>
    ELSE LET wiki_code == features[i].wikipedia
         IN IF wiki_code = "" \/ wiki_code \in seen_wiki_codes
            THEN UniqueFrom(features, i + 1, seen_wiki_codes)
            ELSE <<features[i]>> \o UniqueFrom(features, i + 1, seen_wiki_codes \cup {wiki_code})

\* collector.py remove_duplicates
remove_duplicates(features) == UniqueFrom(features, 1, {})

\* collector.py collect_city_attraction, given the list the API client fetched
collect_city_attraction(all_attractions) ==
    remove_duplicates(filter_attractions_with_wikipedia(all_attractions))

InitCollect ==
    /\ CoreInit
    /\ \E fs \in FeatureLists : calc = [op |-> "fetched", all_attractions |-> fs]

CollectCity ==
    /\ calc.op = "fetched"
    /\ calc' = [op |-> "collect_city_attraction",
                filtered |-> filter_attractions_with_wikipedia(calc.all_attractions),
                res |-> collect_city_attraction(calc.all_attractions)]
    /\ UNCHANGED coreVars

\* the deduplication is run once more on what was returned
DedupAgain ==
    /\ calc.op = "collect_city_attraction"
    /\ calc' = [op |-> "remove_duplicates", filtered |-> calc.filtered,
                res |-> calc.res, again |-> remove_duplicates(calc.res)]
    /\ UNCHANGED coreVars

NextCollect == CollectCity \/ DedupAgain

SpecCollect == InitCollect /\ [][NextCollect]_vars

\* ------------------------------------------------------- claims, collection
\* the elements of fs whose place_id occurs at no earlier position
FirstOfEachPlace(fs) ==
    LET keep == {i \in 1 .. Len(fs) : \A j \in 1 .. (i - 1) : fs[j].place_id # fs[i].place_id}
        F[i \in 0 .. Len(fs)] ==
            IF i = 0 THEN << >>
            ELSE IF i \in keep THEN Append(F[i - 1], fs[i]) ELSE F[i - 1]
    IN F[Len(fs)]

\* C20: deduplication by key. No two attractions returned by
\* collect_city_attraction share a place_id; the result is the filtered input
\* with the first occurrence of each place_id kept in input order; running the
\* deduplication again on its own output changes nothing.
C20_DedupByPlaceId ==
    calc.op \in {"collect_city_attraction", "remove_duplicates"} =>
        /\ \A i, j \in 1 .. Len(calc.res) :
               i # j => calc.res[i].place_id # calc.res[j].place_id
        /\ calc.res = FirstOfEachPlace(calc.filtered)
        /\ calc.op = "remove_duplicates" => calc.again = calc.res

\* ======================================= data_collection/wikipedia_client.py
\* str | None results of fetch_description
Description(text) == [none |-> FALSE, text |-> text]
NoDescription == [none |-> TRUE, text |-> ""]

\* wiki codes as the pieces between their ':' characters
WikiCodes == {<<"en", "Space Needle">>, <<"Space Needle">>, <<"en", "Seattle", "Center">>}

\* wiki_code.split(":", maxsplit=1)
SplitOnce(wiki_code) ==
    IF Len(wiki_code) = 1 THEN <<wiki_code[1]>>
    ELSE <<wiki_code[1], SubSeq(wiki_code, 2, Len(wiki_code))>>

\* what requests.get and the server may do
HttpOutcomes ==
    {[kind |-> "ConnectionError", status |-> 0, body |-> ""],
     [kind |-> "Timeout", status |-> 0, body |-> ""]}
    \cup [kind : {"response"}, status : {404, 500}, body : {"not_json"}]
    \cup [kind : {"response"}, status : {200},
          body : {"not_json", "json_list", "no_query", "pages_list",
                  "page_missing", "page_no_extract", "page_extract"}]

\* the exception classes and their base classes
BaseClasses(exc) ==
    CASE exc = "HTTPError" -> {"HTTPError", "RequestException", "Exception"}
      [] exc \in {"ConnectionError", "Timeout", "JSONDecodeError"} ->
             {exc, "RequestException", "Exception"}
      [] OTHER -> {exc, "Exception"}

\* wikipedia_client.py:63-96, the body of the try block: the exception it
\* raises ("" for none) and the value it returns
TryFetch(wiki_code, outcome) ==
    LET ok(v) == [exc |-> "", ret |-> v]
        raise(e) == [exc |-> e, ret |-> NoDescription]
    IN IF Len(SplitOnce(wiki_code)) # 2 THEN raise("ValueError")
       ELSE IF outcome.kind # "response" THEN raise(outcome.kind)
       ELSE IF outcome.status >= 400 THEN raise("HTTPError")
       ELSE CASE outcome.body = "not_json" -> raise("JSONDecodeError")
              [] outcome.body \in {"json_list", "pages_list"} -> raise("AttributeError")
              [] outcome.body = "page_extract" -> ok(Description("The Space Needle is ..."))
              [] OTHER -> ok(NoDescription)

\* mutant: only the requests exceptions are handled
fetch_description_requests_only(wiki_code, outcome) ==
    LET r == TryFetch(wiki_code, outcome)
    IN IF r.exc = "" THEN [raised |-> "", ret |-> r.ret, log |-> ""]
       ELSE IF "HTTPError" \in BaseClasses(r.exc)
            THEN [raised |-> "", ret |-> NoDescription, log |-> "HTTP Error"]
       ELSE IF "RequestException" \in BaseClasses(r.exc)
            THEN [raised |-> "", ret |-> NoDescription, log |-> "Request failed"]
       ELSE [raised |-> r.exc, ret |-> NoDescription, log |-> ""]

\* wikipedia_client.py fetch_description, given what the HTTP request does
fetch_description(wiki_code, outcome) ==
    LET r == TryFetch(wiki_code, outcome)
    IN IF r.exc = "" THEN [raised |-> "", ret |-> r.ret, log |-> ""]
       ELSE IF "HTTPError" \in BaseClasses(r.exc)
            THEN [raised |-> "", ret |-> NoDescription, log |-> "HTTP Error"]
       ELSE IF "RequestException" \in BaseClasses(r.exc)
            THEN [raised |-> "", ret |-> NoDescription, log |-> "Request failed"]
       ELSE IF "Exception" \in BaseClasses(r.exc)
            THEN [raised |-> "", ret |-> NoDescription, log |-> "Unexpected error"]
       ELSE [raised |-> r.exc, ret |-> NoDescription, log |-> ""]

\* features handed to batch_fetch_descriptions, each with the outcome its
\* request would have: name and wiki code may be missing ("" and << >>)
PageFound == [kind |-> "response", status |-> 200, body |-> "page_extract"]
BatchOutcomes ==
    {PageFound,
     [kind |-> "response", status |-> 200, body |-> "page_missing"],
     [kind |-> "response", status |-> 404, body |-> "not_json"]}
BatchItems ==
    {[name |-> n, wiki_code |-> w, outcome |-> o] :
        n \in {"", "Space Needle"}, w \in {<< >>, <<"en", "Space Needle">>}, o \in BatchOutcomes}
    \ {it \in [name : {"", "Space Needle"}, wiki_code : {<< >>}, outcome : BatchOutcomes] :
          it.outcome # PageFound}
BatchInputs == UNION {[1 .. n -> BatchItems] : n \in 0 .. MaxFeatures}

\* wikipedia_client.py extract_attraction_data (the fields used here)
extract_attraction_data(feature) == [name |-> feature.name, wiki_code |-> feature.wiki_code]

\* wikipedia_client.py batch_fetch_descriptions: the loop over features[i..]
RECURSIVE BatchFrom(_, _)
BatchFrom(features, i) ==
    IF i > Len(features) THEN << >>
    ELSE LET attraction == extract_attraction_data(features[i])
             description == fetch_description(attraction.wiki_code, features[i].outcome).ret
         IN (IF attraction.wiki_code # << >> /\ ~description.none /\ attraction.name # ""
             THEN <<[name |-> attraction.name, wiki_code |-> attraction.wiki_code,
                     description |-> description]>>
             ELSE << >>) \o BatchFrom(features, i + 1)

\* wikipedia_client.py batch_fetch_descriptions
batch_fetch_descriptions(features) == BatchFrom(features, 1)

InitWikipedia ==
    /\ CoreInit
    /\ \/ \E w \in WikiCodes, o \in HttpOutcomes :
              calc = [op |-> "fetch_input", wiki_code |-> w, outcome |-> o]
       \/ \E fs \in BatchInputs : calc = [op |-> "batch_input", features |-> fs]

FetchDescription ==
    /\ calc.op = "fetch_input"
    /\ calc' = [op |-> "fetch_description", wiki_code |-> calc.wiki_code,
                outcome |-> calc.outcome,
                res |-> fetch_description(calc.wiki_code, calc.outcome)]
    /\ UNCHANGED coreVars

BatchFetch ==
    /\ calc.op = "batch_input"
    /\ calc' = [op |-> "batch_fetch_descriptions", features |-> calc.features,
                res |-> batch_fetch_descriptions(calc.features)]
    /\ UNCHANGED coreVars

NextWikipedia == FetchDescription \/ BatchFetch

SpecWikipedia == InitWikipedia /\ [][NextWikipedia]_vars

\* -------------------------------------------------------- claims, wikipedia
\* the positions of features that have no wiki code or whose fetch gave nothing
WithoutDescription(features) ==
    {i \in 1 .. Len(features) :
        \/ features[i].wiki_code = << >>
        \/ fetch_description(features[i].wiki_code, features[i].outcome).ret.none}

\* C21: batch_fetch_descriptions returns the attractions with descriptions
\* added: an attraction without a wiki code, or whose description fetch failed,
\* is present in the returned list with description set to None.
C21_BatchKeepsUndescribed ==
    calc.op = "batch_fetch_descriptions" =>
        Cardinality({k \in 1 .. Len(calc.res) : calc.res[k].description.none})
            = Cardinality(WithoutDescription(calc.features))

\* C22: fetch_description never raises. For every wiki_code, also one without
\* a ':' separator, and every outcome of the HTTP request (error status,
\* network failure, malformed response) it returns the description or None.
C22_FetchNeverRaises ==
    calc.op = "fetch_description" =>
        /\ calc.res.raised = ""
        /\ calc.res.ret.none \/ calc.res.ret.text # ""
        /\ (calc.outcome.kind # "response" \/ calc.outcome.status >= 400
                \/ calc.outcome.body # "page_extract"
                \/ Len(calc.wiki_code) < 2) => calc.res.ret.none

\* a wiki code without ':' was given and None came back
C22_Witness ==
    /\ calc.op = "fetch_description"
    /\ calc.wiki_code = <<"Space Needle">>
    /\ calc.res.raised = "" /\ calc.res.ret.none

\* -------------------------------------------- claims, one session, threads
\* the turns of call c in the history h
TurnsOf(h, c) == SelectSeq(h, LAMBDA m : m.call = c)

\* C24 as stated: concurrent answer() calls on the same session id cannot
\* corrupt the history. For every interleaving of two such calls, also when
\* both are the first access to the id, the final history contains both
\* question/answer pairs, each human turn immediately followed by its own
\* assistant turn, and no appended turn is lost.
C24_SameSessionSafe ==
    Quiescent =>
        LET h == Turns(SharedSession)
        IN /\ Len(h) = 2 * Cardinality(DOMAIN callLog)
           /\ \A c \in DOMAIN callLog : Len(TurnsOf(h, c)) = 2
           /\ \A i \in 1 .. Len(h) : i % 2 = 1 =>
                  /\ h[i].type = "human"
                  /\ i + 1 <= Len(h)
                  /\ h[i + 1].type = "ai"
                  /\ h[i + 1].call = h[i].call

\* C24 (amended): concurrent calls on one session id are not synchronized.
\* When they have ended, the history holds turns of returned calls only, and of
\* each returned call either both turns, the human one before the assistant
\* one, or none; turns of different calls may interleave. If the session
\* existed before the calls started, no turn of a returned call is missing.
C24_SameSessionUnsynchronized ==
    Quiescent =>
        LET h == Turns(SharedSession)
        IN /\ \A i \in 1 .. Len(h) : h[i].call \in DOMAIN callLog
           /\ \A c \in DOMAIN callLog :
                  LET mine == ExitMessages(callLog[c].question, callLog[c].answer,
                                           [call |-> c, session_id |-> SharedSession])
                  IN /\ TurnsOf(h, c) \in {<< >>, mine}
                     /\ lastOp.op = "get_history" => TurnsOf(h, c) = mine

\* both calls have returned and their turns interleave: human, human, ...
C24_Witness ==
    /\ Quiescent
    /\ lastOp.op = "get_history"
    /\ Len(Turns(SharedSession)) = 4
    /\ Turns(SharedSession)[1].type = "human"
    /\ Turns(SharedSession)[2].type = "human"

\* ================================================================== cli.py
\* lines typed at the prompt, as their pieces: blanks and words
ShellInputs ==
    {<<"quit">>, <<" ", "Exit", " ">>, <<"CLEAR">>, <<"history", " ">>,
     << >>, <<" ">>, <<"q1">>, <<" ", "Q2">>}

\* str.strip(): leading and trailing blanks removed
RECURSIVE Strip(_)
Strip(raw) ==
    IF raw = << >> THEN << >>
    ELSE IF raw[1] = " " THEN Strip(SubSeq(raw, 2, Len(raw)))
    ELSE IF raw[Len(raw)] = " " THEN Strip(SubSeq(raw, 1, Len(raw) - 1))
    ELSE raw

\* the text of a stripped line ("" when nothing is left)
Stripped(raw) == IF Strip(raw) = << >> THEN "" ELSE Strip(raw)[1]

\* str.lower()
Lower(word) ==
    CASE word = "Exit" -> "exit"
      [] word = "CLEAR" -> "clear"
      [] word = "Q2" -> "q2"
      [] OTHER -> word

\* mutant: the keywords are compared without case folding
KeywordExact(raw) == Stripped(raw)

\* cli.py:76-91  question = input(...).strip(), compared as question.lower()
Keyword(raw) == Lower(Stripped(raw))

\* the Document a record of the index is
DocumentOf(r) ==
    IF r = "r2" THEN [page_content |-> " ", metadata |-> << >>]
    ELSE [page_content |-> "Name: Space Needle...",
          metadata |-> ("name" :> "Space Needle") @@ ("city" :> "Seattle")
                       @@ ("state" :> "Washington")
                       @@ ("country" :> "United States of America")
                       @@ ("lat" :> PyFloat(47)) @@ ("lon" :> PyFloat(-122))]

\* cli.py:119-133  the answer and the first three sources, name and city
ShowAnswer(result) ==
    <<[line |-> "Answer", text |-> result.answer]>>
    \o (IF result.source_documents # << >>
        THEN <<[line |-> "SOURCES", count |-> Len(result.source_documents)]>>
             \o [i \in 1 .. (IF Len(result.source_documents) < 3
                             THEN Len(result.source_documents) ELSE 3) |->
                    [line |-> "source", ordinal |-> i,
                     name |-> MetaGet(DocumentOf(result.source_documents[i]).metadata,
                                      "name", "Unknown"),
                     city |-> MetaGet(DocumentOf(result.source_documents[i]).metadata,
                                      "city", "Unknown")]]
        ELSE << >>)

\* cli.py:94-104  the numbered messages, the content cut after 100 characters
ShowHistory(messages) ==
    [i \in 1 .. Len(messages) |->
        [line |-> "history", ordinal |-> i,
         role |-> IF messages[i].type = "human" THEN "User" ELSE "AI Assistant",
         content |-> messages[i].content,
         cut |-> messages[i].content = FallbackMessage]]

\* cli.py:40-49  single_query's display: the answer and the detailed citations
ShowSingle(result) ==
    <<[line |-> "Answer", text |-> result.answer],
      [line |-> "SOURCE DOCUMENTS",
       text |-> format_citations_detailed(
                   [i \in 1 .. Len(result.source_documents) |->
                       DocumentOf(result.source_documents[i])]).out]>>

\* test_rag.py:68-71: the shell runs interactive_loop or single_query on its
\* session; another session may already hold an exchange
OtherSession == CHOOSE s \in Sessions : s # SharedSession
InitShell ==
    /\ \/ session_store = << >> /\ heap = << >>
       \/ /\ session_store = (OtherSession :> NewObject)
          /\ heap = (NewObject :>
                 ExitMessages("q1", "a1", [call |-> 0, session_id |-> OtherSession]))
    /\ run = [p \in Procs |-> IdleRun]
    /\ ncalls = 0
    /\ callLog = << >>
    /\ lastOp = NoOp
    /\ concurrent = FALSE
    /\ calc = NoCalc
    /\ \E mode \in {"interactive", "single"} :
          shell = [NoShell EXCEPT !.pc = IF mode = "single" THEN "single" ELSE "loop",
                                  !.mode = mode, !.session_id = SharedSession]

shellCore == <<session_store, heap, run, ncalls, callLog, lastOp, concurrent, calc>>

\* cli.py:75-76  turn += 1 and the prompt "Turn {turn} Your Question: "
ShellPrompt ==
    /\ shell.pc = "loop"
    /\ shell' = [shell EXCEPT !.turn = @ + 1, !.shown = shell.turn + 1,
                              !.prev = shell.shown, !.pc = "input"]
    /\ UNCHANGED shellCore

\* cli.py:79-81  quit / exit
ShellQuit(raw) ==
    /\ shell.pc = "input"
    /\ Keyword(raw) \in {"quit", "exit"}
    /\ shell' = [shell EXCEPT !.raw = raw, !.last = "quit", !.printed = << >>,
                              !.pc = "ended"]
    /\ UNCHANGED shellCore

\* mutant: the counter is not reset by clear
ShellClearKeepsTurn(raw) ==
    /\ shell.pc = "input"
    /\ Keyword(raw) \notin {"quit", "exit"}
    /\ Keyword(raw) = "clear"
    /\ clear_session_history(shell.session_id)
    /\ shell' = [shell EXCEPT !.raw = raw, !.last = "clear", !.printed = << >>,
                              !.pc = "loop"]

\* cli.py:84-88  clear
ShellClear(raw) ==
    /\ shell.pc = "input"
    /\ Keyword(raw) \notin {"quit", "exit"}
    /\ Keyword(raw) = "clear"
    /\ clear_session_history(shell.session_id)
    /\ shell' = [shell EXCEPT !.raw = raw, !.last = "clear", !.printed = << >>,
                              !.turn = 0, !.pc = "loop"]

\* cli.py:91-107  history
ShellHistory(raw) ==
    /\ shell.pc = "input"
    /\ Keyword(raw) \notin {"quit", "exit", "clear"}
    /\ Keyword(raw) = "history"
    /\ get_history(shell.session_id)
    /\ shell' = [shell EXCEPT !.raw = raw, !.last = "history",
                              !.printed = ShowHistory(lastOp'.messages),
                              !.turn = @ - 1, !.pc = "loop"]

\* cli.py:110-112  empty input
ShellEmpty(raw) ==
    /\ shell.pc = "input"
    /\ Keyword(raw) \notin {"quit", "exit", "clear", "history"}
    /\ Stripped(raw) = ""
    /\ shell' = [shell EXCEPT !.raw = raw, !.last = "empty", !.printed = << >>,
                              !.turn = @ - 1, !.pc = "loop"]
    /\ UNCHANGED shellCore

\* cli.py:114-118  anything else is a question: rag_chain_memory.invoke begins
ShellAsk(raw) ==
    /\ shell.pc = "input"
    /\ Keyword(raw) \notin {"quit", "exit", "clear", "history"}
    /\ Stripped(raw) # ""
    /\ Invoke(MainThread, Stripped(raw), shell.session_id)
    /\ shell' = [shell EXCEPT !.raw = raw, !.last = "asked", !.printed = << >>,
                              !.question = Stripped(raw), !.pc = "calling"]

\* the steps of the call the shell is waiting for
ShellStep ==
    /\ shell.pc = "calling"
    /\ \/ EnterHistory(MainThread)
       \/ RetrieveOk(MainThread)
       \/ SmartAnswer(MainThread)
       \/ GenerateOk(MainThread)
       \/ ExitHistory(MainThread)
    /\ UNCHANGED shell

\* cli.py:119-133  invoke returned: the answer and the sources are shown
ShellReturn ==
    /\ shell.pc = "calling" /\ shell.mode = "interactive"
    /\ Return(MainThread)
    /\ shell' = [shell EXCEPT !.last = "answered",
                              !.printed = ShowAnswer(run'[MainThread].result),
                              !.pc = "loop"]

\* mutant: a failed question still counts as a turn
ShellExceptAdvances ==
    /\ shell.pc = "calling" /\ shell.mode = "interactive"
    /\ RetrieveFails(MainThread) \/ GenerateFails(MainThread)
    /\ shell' = [shell EXCEPT !.last = "failed",
                              !.printed = <<[line |-> "Error", text |-> run'[MainThread].error]>>,
                              !.pc = "loop"]

\* cli.py:134-136  except Exception: the error is shown, turn -= 1
ShellExcept ==
    /\ shell.pc = "calling" /\ shell.mode = "interactive"
    /\ RetrieveFails(MainThread) \/ GenerateFails(MainThread)
    /\ shell' = [shell EXCEPT !.last = "failed",
                              !.printed = <<[line |-> "Error", text |-> run'[MainThread].error]>>,
                              !.turn = @ - 1, !.pc = "loop"]

\* the question single_query is given: a text, or None
NoQuestion == "<None>"
DefaultQuestion == "Can you provide some Seattle attractions to me?"

\* cli.py:31-37  single_query: the default question, then invoke begins
SingleAsk(question) ==
    /\ shell.pc = "single"
    /\ LET q == IF question = NoQuestion THEN DefaultQuestion ELSE question
       IN /\ Invoke(MainThread, q, shell.session_id)
          /\ shell' = [shell EXCEPT !.question = q, !.last = "asked", !.pc = "calling"]

\* cli.py:39-51  invoke returned: the answer and the citations are shown
SingleReturn ==
    /\ shell.pc = "calling" /\ shell.mode = "single"
    /\ Return(MainThread)
    /\ shell' = [shell EXCEPT !.last = "answered",
                              !.printed = ShowSingle(run'[MainThread].result),
                              !.pc = "ended"]

\* mutant: single_query answers a failure with the fallback text
SingleRaiseShowsFallback ==
    /\ shell.pc = "calling" /\ shell.mode = "single"
    /\ RetrieveFails(MainThread) \/ GenerateFails(MainThread)
    /\ shell' = [shell EXCEPT !.last = "failed",
                              !.printed = <<[line |-> "Answer", text |-> FallbackMessage]>>,
                              !.pc = "ended"]

\* cli.py:34-37  invoke raised: nothing in single_query catches it
SingleRaise ==
    /\ shell.pc = "calling" /\ shell.mode = "single"
    /\ RetrieveFails(MainThread) \/ GenerateFails(MainThread)
    /\ shell' = [shell EXCEPT !.last = "failed", !.pc = "raised"]

NextShell ==
    \/ ShellPrompt
    \/ \E raw \in ShellInputs : ShellQuit(raw)
    \/ \E raw \in ShellInputs : ShellClear(raw)
    \/ \E raw \in ShellInputs : ShellHistory(raw)
    \/ \E raw \in ShellInputs : ShellEmpty(raw)
    \/ \E raw \in ShellInputs : ShellAsk(raw)
    \/ ShellStep
    \/ ShellReturn
    \/ ShellExcept
    \/ \E question \in Questions \cup {NoQuestion} : SingleAsk(question)
    \/ SingleReturn
    \/ SingleRaise

SpecShell == InitShell /\ [][NextShell]_vars

\* ------------------------------------------------------------ claims, shell
AtPrompt == shell.mode = "interactive" /\ shell.pc = "input"

\* questions answered successfully since the loop started or was last cleared
Answered ==
    Cardinality({c \in DOMAIN callLog :
        callLog[c].session_id = shell.session_id /\ ~callLog[c].cleared})

\* C25: shell turn counter. The turn number shown at every prompt is 1 plus the
\* number of questions answered successfully since the loop started or since
\* the last clear; history, empty input and a failed answer() leave the next
\* prompt's number unchanged, and clear makes the next prompt show turn 1.
C25_TurnCounter ==
    AtPrompt =>
        /\ shell.shown = shell.turn
        /\ shell.shown = 1 + Answered
        /\ shell.last \in {"history", "empty", "failed"} => shell.shown = shell.prev
        /\ shell.last = "clear" => shell.shown = 1
        /\ shell.last = "answered" => shell.shown = shell.prev + 1

\* the prompt after a failed question, asked when one had been answered
C25_Witness == AtPrompt /\ shell.last = "failed" /\ shell.shown = 2

\* C26: shell counter and history agree. The session being empty when the loop
\* starts and only the loop writing to it, at every prompt the session's
\* history holds exactly 2 x (displayed turn - 1) turns.
C26_CounterMatchesHistory ==
    AtPrompt => Len(Turns(shell.session_id)) = 2 * (shell.shown - 1)

\* the prompt after a clear that followed an answered question
C26_Witness ==
    /\ AtPrompt /\ shell.last = "clear" /\ shell.prev = 2
    /\ \E c \in DOMAIN callLog : callLog[c].cleared
    /\ Turns(shell.session_id) = << >>

\* what the loop does with the line it reads at a prompt
ControlStep ==
    AtPrompt /\ shell'.pc # "input" =>
        LET line == Lower(Stripped(shell'.raw))
        IN /\ line \in {"quit", "exit", "clear", "history", ""} =>
                 /\ ncalls' = ncalls
                 /\ \A p \in Procs : run'[p].pc \in {"idle", "returned", "raised"}
                 /\ shell'.pc # "calling"
           /\ line \in {"history", ""} => \A s \in Sessions : Turns(s)' = Turns(s)
           /\ line = "clear" =>
                 /\ get_all_sessions' = get_all_sessions \ {shell.session_id}
                 /\ \A s \in Sessions \ {shell.session_id} : Turns(s)' = Turns(s)
           /\ shell'.pc = "ended" <=> line \in {"quit", "exit"}

\* the loop leaves only from a prompt
EndStep == (shell.mode = "interactive" /\ shell'.pc = "ended") => shell.pc = "input"

\* C27: shell control commands never reach the core. A line that after trimming
\* and case folding is quit, exit, clear or history, or is empty, never causes
\* a call to answer(); history and empty input leave every session's turns
\* unchanged, clear removes only the loop's own session, and no line other than
\* quit or exit ends the loop.
C27_ControlCommands == [][ControlStep /\ EndStep]_vars

\* CLEAR was typed after an answered question while another session existed
C27_Witness ==
    /\ shell.mode = "interactive" /\ shell.pc = "loop"
    /\ shell.raw = <<"CLEAR">>
    /\ callLog # << >>
    /\ get_all_sessions = {OtherSession}
    /\ Len(Turns(OtherSession)) = 2

\* C28: a failed answer() in interactive mode is reported and survived. The
\* loop prints an explicit error, no answer and no sources, does not advance
\* the turn counter and prompts again; in single_query the failure propagates
\* to the caller with nothing displayed as an answer.
C28_FailureReported ==
    /\ (shell.mode = "interactive" /\ shell.last = "failed") =>
          /\ shell.pc \in {"loop", "input"}
          /\ Len(shell.printed) = 1
          /\ shell.printed[1].line = "Error"
          /\ shell.printed[1].text \in {"RetrievalUnavailable", "GenerationFailure"}
          /\ shell.pc = "loop" => shell.turn = shell.shown - 1
          /\ shell.pc = "input" => shell.shown = shell.prev
    /\ (shell.mode = "single" /\ run[MainThread].pc = "raised") =>
          /\ shell.pc = "raised"
          /\ shell.printed = << >>
    /\ (shell.mode = "single" /\ shell.pc # "ended") => shell.printed = << >>

\* single_query was left by the exception of a failed generation
C28_Witness ==
    /\ shell.mode = "single" /\ shell.pc = "raised"
    /\ run[MainThread].error = "GenerationFailure"

\* ======================================== data_collection/geoapify_client.py
Cities == {"Seattle", "Portland"}

\* what the Places API may answer: a feature list (possibly empty), a body
\* without "features", an error status, or no answer at all
ApiOutcomes ==
    {[kind |-> "features", features |-> fs] : fs \in {<< >>, <<"f1">>, <<"f2", "f1">>}}
    \cup {[kind |-> k, features |-> << >>] : k \in {"no_features_key", "HTTPError", "ConnectionError"}}

NoFetch == [city |-> "", outcome |-> "", requested |-> FALSE, ret |-> << >>, raised |-> ""]

\* mutant: the raw file is written before the result is tested for emptiness
fetch_and_save_attractions_saves_empty(files, city_name, outcome) ==
    IF city_name \in DOMAIN files
    THEN [files |-> files, requested |-> FALSE, ret |-> files[city_name], raised |-> ""]
    ELSE IF outcome.kind \in {"HTTPError", "ConnectionError"}
    THEN [files |-> files, requested |-> TRUE, ret |-> << >>, raised |-> outcome.kind]
    ELSE [files |-> files @@ (city_name :> outcome.features), requested |-> TRUE,
          ret |-> outcome.features, raised |-> ""]

\* geoapify_client.py fetch_and_save_attractions, given the raw files present
\* (city -> stored list) and what the API does if it is asked
fetch_and_save_attractions(files, city_name, outcome) ==
    IF city_name \in DOMAIN files
    THEN [files |-> files, requested |-> FALSE, ret |-> files[city_name], raised |-> ""]
    ELSE IF outcome.kind \in {"HTTPError", "ConnectionError"}
    THEN [files |-> files, requested |-> TRUE, ret |-> << >>, raised |-> outcome.kind]
    ELSE LET attractions == IF outcome.kind = "features" THEN outcome.features ELSE << >>
         IN IF attractions = << >>
            THEN [files |-> files, requested |-> TRUE, ret |-> << >>, raised |-> ""]
            ELSE [files |-> files @@ (city_name :> attractions), requested |-> TRUE,
                  ret |-> attractions, raised |-> ""]

\* no raw file exists yet
InitCache ==
    /\ CoreInit
    /\ calc = [op |-> "geoapify", files |-> << >>, calls |-> 0, requests |-> 0,
               last |-> NoFetch]

FetchAndSave(city_name, outcome) ==
    /\ calc.op = "geoapify"
    /\ calc.calls < MaxFetches
    /\ LET r == fetch_and_save_attractions(calc.files, city_name, outcome)
       IN calc' = [op |-> "geoapify", files |-> r.files, calls |-> calc.calls + 1,
                   requests |-> calc.requests + (IF r.requested THEN 1 ELSE 0),
                   last |-> [city |-> city_name,
                             outcome |-> IF r.requested THEN outcome.kind ELSE "",
                             requested |-> r.requested, ret |-> r.ret, raised |-> r.raised]]
    /\ UNCHANGED coreVars

NextCache == \E city_name \in Cities, outcome \in ApiOutcomes : FetchAndSave(city_name, outcome)

SpecCache == InitCache /\ [][NextCache]_vars

\* ------------------------------------------------------------ claims, cache
\* a stored list is never empty
StoredNonEmpty == \A c \in DOMAIN calc.files : calc.files[c] # << >>

CacheStep ==
    LET c == calc'.last.city
    IN /\ \A d \in DOMAIN calc.files : d \in DOMAIN calc'.files /\ calc'.files[d] = calc.files[d]
       /\ c \in DOMAIN calc.files =>
             /\ ~calc'.last.requested
             /\ calc'.requests = calc.requests
             /\ calc'.last.ret = calc.files[c]
             /\ calc'.last.raised = ""
       /\ c \notin DOMAIN calc.files =>
             /\ calc'.last.requested
             /\ calc'.requests = calc.requests + 1
             /\ (calc'.last.ret = << >>) <=> (c \notin DOMAIN calc'.files)
             /\ c \in DOMAIN calc'.files => calc'.files[c] = calc'.last.ret
             /\ calc'.last.raised # "" => calc'.last.ret = << >>

\* C29: raw-record cache. Once fetch_and_save_attractions has stored a non-empty
\* result for a city, every later call for that city returns the stored list
\* and makes no API request; an empty API result and a failed request write no
\* cache file, so the next call queries the API again.
C29_RawCache == []StoredNonEmpty /\ [][CacheStep]_vars

\* after a failed and then a successful request for a city, a third call for
\* it was served from the file
C29_Witness ==
    /\ calc.op = "geoapify"
    /\ calc.calls = 3 /\ calc.requests = 2
    /\ ~calc.last.requested
    /\ calc.last.ret = <<"f2", "f1">>
    /\ DOMAIN calc.files = {calc.last.city}

\* ================================================= memory.py, all sessions
\* list(_session_store.keys()): each key once (the order is not modelled)
RECURSIVE KeyList(_)
KeyList(keys) ==
    IF keys = {} THEN << >>
    ELSE LET k == CHOOSE k \in keys : TRUE IN <<k>> \o KeyList(keys \ {k})

\* history variable: the turns of every returned call are cleared
MarkAllCleared == [c \in DOMAIN callLog |-> [callLog[c] EXCEPT !.cleared = TRUE]]

\* mutant: the histories are emptied but the session ids stay registered
clear_all_sessions_keeps_ids ==
    /\ concurrent \/ Quiescent
    /\ session_store' = session_store
    /\ heap' = [o \in DOMAIN Collect(heap, session_store, Forget) |-> << >>]
    /\ lastOp' = [op |-> "clear_all", sid |-> "", existed |-> session_store # << >>,
                  ret |-> "None", log |-> "All sessions have been deleted!",
                  raised |-> "", messages |-> << >>, obj |-> 0]
    /\ run' = Forget
    /\ callLog' = MarkAllCleared
    /\ UNCHANGED <<ncalls, concurrent, calc>>

\* memory.py clear_all_sessions: _session_store.clear()
clear_all_sessions ==
    /\ concurrent \/ Quiescent
    /\ session_store' = << >>
    /\ run' = Forget
    /\ heap' = Collect(heap, session_store', run')
    /\ lastOp' = [op |-> "clear_all", sid |-> "", existed |-> session_store # << >>,
                  ret |-> "None", log |-> "All sessions have been deleted!",
                  raised |-> "", messages |-> << >>, obj |-> 0]
    /\ callLog' = MarkAllCleared
    /\ UNCHANGED <<ncalls, concurrent, calc>>

NextRegistry ==
    \/ \E p \in Procs, q \in Questions, s \in Sessions : Invoke(p, q, s) /\ UNCHANGED shell
    \/ \E p \in Procs : AnswerStep(p)
    \/ \E s \in Sessions : clear_session_history(s) /\ UNCHANGED shell
    \/ \E s \in Sessions : get_history(s) /\ UNCHANGED shell
    \/ clear_all_sessions /\ UNCHANGED shell

SpecRegistry == Init /\ [][NextRegistry]_vars

\* ---------------------------------------------------------- claims, registry
\* what the last operation says about the ids, and what the returned calls do
RegistryInv ==
    LET ids == KeyList(get_all_sessions)
    IN /\ \A i, j \in 1 .. Len(ids) : i # j => ids[i] # ids[j]
       /\ {ids[i] : i \in 1 .. Len(ids)} = DOMAIN session_store
       /\ \A c \in DOMAIN callLog : ~callLog[c].cleared => callLog[c].session_id \in get_all_sessions
       /\ \A s \in Sessions : s \notin get_all_sessions =>
              \A c \in DOMAIN callLog : callLog[c].session_id = s => callLog[c].cleared
       /\ lastOp.op = "get_history" => lastOp.sid \in get_all_sessions
       /\ lastOp.op = "clear" => lastOp.sid \notin get_all_sessions
       /\ lastOp.op = "clear_all" => get_all_sessions = {}

\* how each operation changes the listed ids
RegistryStep ==
    /\ \A s \in Sessions :
          /\ (get_history(s) \/ \E p \in Procs, q \in Questions : Invoke(p, q, s)) =>
                /\ get_all_sessions' = get_all_sessions \cup {s}
                /\ s \notin get_all_sessions => Turns(s)' = << >>
          /\ clear_session_history(s) => get_all_sessions' = get_all_sessions \ {s}
    /\ clear_all_sessions => get_all_sessions' = {} /\ \A s \in Sessions : Turns(s)' = << >>
    /\ (\E p \in Procs : AnswerStep(p)) => get_all_sessions' = get_all_sessions

\* C30: session registry. After any sequence of get_or_create, clear and
\* clear_all operations, list_ids() is exactly the set of ids that were accessed
\* and not cleared since, no id listed twice; after clear_all() it is empty and
\* every id accessed afterwards starts with an empty history.
C30_SessionRegistry == []RegistryInv /\ [][RegistryStep]_vars

\* clear_all has just removed two sessions that both held answered questions
C30_Witness ==
    /\ lastOp.op = "clear_all" /\ lastOp.existed
    /\ get_all_sessions = {}
    /\ \A s \in Sessions : \E c \in DOMAIN callLog : callLog[c].session_id = s
    /\ \A s \in Sessions : Turns(s) = << >>
====
